---- MODULE Spec2Model ----
(***************************************************************************)
(* Client of the media-controller protocol: the App component (socket,    *)
(* track store, inactivity tracker), the PlayerControls component          *)
(* (controls store, intent dispatch) and the ProgressBar component         *)
(* (timeline position, seek gesture), over one socket.io channel.          *)
(*                                                                         *)
(* React state is modelled as committed state: a setState call and the     *)
(* render it causes are one step.  Passive effects (useEffect) of the      *)
(* child components run in a later step, FlushEffects, as React schedules  *)
(* them after the commit; an event delivered in between finds the          *)
(* handlers of the previous render.                                        *)
(***************************************************************************)
EXTENDS Integers, Sequences, FiniteSets, TLC

VARIABLES
    session,      \* "initial" before the first mount, "open" while App is mounted, "closed" after unmount
    channels,     \* number of sockets created by new IO(url) and not yet disconnected
    connection,   \* state of io.socket: "closed", "connecting", "connected"
    everConnected, \* the current socket has been connected before (history)
    handlers,     \* listeners registered on io.socket, per inbound event name
    seekingSeen,  \* value of `seeking` captured by the registered onTrackTimeline
    track,        \* App: useState<TrackInfo | null>, <<>> is null
    primaryHue,   \* document style property --primary-hue, <<>> is unset
    controls,     \* PlayerControls: useState<TrackControls | null>, <<>> is null
    progress,     \* ProgressBar: useState(0)
    seeking,      \* ProgressBar: useState(false)
    gestureValue, \* last value onValueChange supplied since the last commit (history)
    active,       \* useInactivityTracker: useState(true)
    inactivityTimer, \* ticks left on the pending timeout, NoTimer when none is pending
    listening,    \* resetTimer is registered on document for INTERACTION_EVENTS
    idle,         \* ticks since resetTimer last ran (history, capped)
    emitted,      \* the socket.emit calls the last step made, in order
    requests,     \* number of get_media_details emitted on the current socket (history)
    pushedInfo,   \* payload of the last well-formed track_info delivered in this session, <<>> if none (history)
    pushedControls, \* payload of the last well-formed track_controls delivered in this session (history)
    pushedProgress, \* progress of the last well-formed track_timeline delivered in this session (history)
    dragging,     \* the user has a gesture on the Slider under way (history)
    lastOp        \* name of the last operation that ran (history); an input that
                  \* finds the tracker inactive is named "wake", a listener
                  \* that throws is named "TypeError"

vars == <<session, channels, connection, everConnected, handlers, seekingSeen, track,
          primaryHue, controls, progress, seeking, gestureValue, active,
          inactivityTimer, listening, idle, emitted, requests, pushedInfo,
          pushedControls, pushedProgress, dragging, lastOp>>

-----------------------------------------------------------------------------
(* Bounds of the model *)

MaxProgress == 1
MaxIdle == 1

(* INACTIVITY_TIMEOUT = 10 * 1000 ms, counted in ticks of 5000 ms *)
INACTIVITY_TIMEOUT == 2

NoTimer == -1
null == "null"

-----------------------------------------------------------------------------
(* Protocol: names and payloads *)

(* The names in lib/socket-io.ts *)
events ==
    [ GET_MEDIA_DETAILS |-> "get_media_details",
      TOGGLE_PLAY_PAUSE |-> "toggle_play_pause",
      NEXT_TRACK        |-> "next_track",
      PREVIOUS_TRACK    |-> "previous_track",
      SEEK              |-> "seek",
      TOGGLE_SHUFFLE    |-> "toggle_shuffle",
      SET_REPEAT_MODE   |-> "set_repeat_mode",
      MEDIA_CHANGED     |-> "media_changed",
      TRACK_PROGRESS    |-> "track_progress",
      MEDIA_DETAILS     |-> "media_details" ]

(* The names the components subscribe to (TRACK_INFO,                 *)
(* TRACK_CONTROLS, TRACK_TIMELINE), with the codes the README  *)
(* gives them                                                                *)
TRACK_INFO == "track_info"
TRACK_CONTROLS == "track_controls"
TRACK_TIMELINE == "track_timeline"

InboundEvents == {TRACK_INFO, TRACK_CONTROLS, TRACK_TIMELINE}

AutoRepeatMode == [None |-> "none", Track |-> "track", List |-> "list"]

INTERACTION_EVENTS == {"mousedown", "mousemove", "keydown", "touchstart", "scroll"}

(* TrackInfo payloads the server pushes *)
TrackInfos ==
    { [title |-> "a", artist |-> "x", album |-> "m", duration |-> 2,
       thumbnail |-> "p", accent_color |-> 10],
      [title |-> "b", artist |-> "y", album |-> null, duration |-> 1,
       thumbnail |-> "q", accent_color |-> 200] }

(* TrackControls payloads the server pushes *)
TrackControlsSet ==
    { [shuffle_enabled |-> TRUE, auto_repeat_mode_enabled |-> TRUE,
       next_enabled |-> TRUE, prev_enabled |-> TRUE, play_pause_enabled |-> TRUE,
       shuffle |-> FALSE, auto_repeat_mode |-> "none", playing |-> TRUE],
      [shuffle_enabled |-> FALSE, auto_repeat_mode_enabled |-> FALSE,
       next_enabled |-> FALSE, prev_enabled |-> FALSE, play_pause_enabled |-> FALSE,
       shuffle |-> TRUE, auto_repeat_mode |-> "list", playing |-> FALSE],
      [shuffle_enabled |-> TRUE, auto_repeat_mode_enabled |-> TRUE,
       next_enabled |-> FALSE, prev_enabled |-> TRUE, play_pause_enabled |-> FALSE,
       shuffle |-> TRUE, auto_repeat_mode |-> "track", playing |-> FALSE],
      [shuffle_enabled |-> FALSE, auto_repeat_mode_enabled |-> TRUE,
       next_enabled |-> TRUE, prev_enabled |-> FALSE, play_pause_enabled |-> TRUE,
       shuffle |-> FALSE, auto_repeat_mode |-> "list", playing |-> TRUE] }

(* One socket.emit call: the event name and its argument *)
Emit(name, mode, position) == [name |-> name, mode |-> mode, position |-> position]

NoMode == "-"
NoPosition == -1

(* The events of one name among a step's emit calls *)
NumOf(calls, name) == Cardinality({i \in 1..Len(calls) : calls[i].name = name})

(* The running total of the emitted get_media_details events *)
Counted == requests' = requests + NumOf(emitted', events.GET_MEDIA_DETAILS)

(* hue.toString() on the accent hues of TrackInfos *)
HueToString(hue) ==
    CASE hue = 10 -> "10"
      [] hue = 200 -> "200"
      [] OTHER -> "NaN"

-----------------------------------------------------------------------------
(* Initial state: the page is loaded and App has not been mounted yet *)

Init ==
    /\ session = "initial"
    /\ connection = "closed"
    /\ everConnected = FALSE
    /\ handlers = [e \in InboundEvents |-> 0]
    /\ seekingSeen = FALSE
    /\ track = <<>>
    /\ primaryHue = <<>>
    /\ controls = <<>>
    /\ progress = 0
    /\ seeking = FALSE
    /\ gestureValue = NoPosition
    /\ active = TRUE
    /\ inactivityTimer = NoTimer
    /\ listening = FALSE
    /\ idle = 0
    /\ emitted = <<>>
    /\ requests = 0
    /\ pushedInfo = <<>>
    /\ pushedControls = <<>>
    /\ pushedProgress = NoPosition
    /\ dragging = FALSE
    /\ channels = 0
    /\ lastOp = "load"

mounted == session = "open"

(* App renders ProgressBar and PlayerControls only once track is not null *)
ChildrenMounted == mounted /\ track # <<>>

-----------------------------------------------------------------------------
(* useInactivityTracker *)

(* resetTimer without its setActive(true) *)
resetTimer_StaysInactive ==
    /\ active' = active
    /\ inactivityTimer' = INACTIVITY_TIMEOUT
    /\ idle' = 0

(* resetTimer without its clearTimeout: a pending timeout keeps its time *)
resetTimer_KeepsOldTimer ==
    /\ active' = TRUE
    /\ inactivityTimer' = IF inactivityTimer = NoTimer
                          THEN INACTIVITY_TIMEOUT
                          ELSE inactivityTimer
    /\ idle' = 0

(* resetTimer: clearTimeout, setActive(true), setTimeout(..., timeout) *)
resetTimer ==
    /\ active' = TRUE
    /\ inactivityTimer' = INACTIVITY_TIMEOUT
    /\ idle' = 0

(* One of INTERACTION_EVENTS reaches document *)
Input ==
    /\ listening
    /\ \E ev \in INTERACTION_EVENTS : resetTimer
    /\ lastOp' = IF active THEN "input" ELSE "wake"
    /\ emitted' = <<>>
    /\ UNCHANGED <<session, connection, everConnected, handlers, seekingSeen, track,
                   primaryHue, controls, progress, seeking, gestureValue,
                   listening, requests, pushedInfo,
                   pushedControls, pushedProgress, dragging,
                   channels>>

(* Time advances by one tick; a timeout that is due runs before the next tick *)
Tick ==
    /\ mounted
    /\ inactivityTimer # 0
    /\ idle < INACTIVITY_TIMEOUT + MaxIdle
    /\ inactivityTimer' = IF inactivityTimer > 0 THEN inactivityTimer - 1 ELSE inactivityTimer
    /\ idle' = idle + 1
    /\ lastOp' = "tick"
    /\ emitted' = <<>>
    /\ UNCHANGED <<session, connection, everConnected, handlers, seekingSeen, track,
                   primaryHue, controls, progress, seeking, gestureValue, active,
                   listening, requests, pushedInfo,
                   pushedControls, pushedProgress, dragging,
                   channels>>

(* The setTimeout callback: setActive(false) *)
Timeout ==
    /\ inactivityTimer = 0
    /\ active' = FALSE
    /\ inactivityTimer' = NoTimer
    /\ lastOp' = "timeout"
    /\ emitted' = <<>>
    /\ UNCHANGED <<session, connection, everConnected, handlers, seekingSeen, track,
                   primaryHue, controls, progress, seeking, gestureValue,
                   listening, idle, requests, pushedInfo,
                   pushedControls, pushedProgress, dragging,
                   channels>>

-----------------------------------------------------------------------------
(* App: mount and unmount *)

(* First render of App and its two effects: the tracker's effect (resetTimer, *)
(* addEventListener) and the socket effect (new IO, socket.on(TRACK_INFO)).   *)
(* The children's state is created when they first render; it is given its    *)
(* initial values here.                                                        *)
Mount ==
    /\ ~mounted
    /\ session' = "open"
    /\ track' = <<>>
    /\ resetTimer
    /\ listening' = TRUE
    /\ channels' = channels + 1
    /\ connection' = "connecting"
    /\ everConnected' = FALSE
    /\ handlers' = [e \in InboundEvents |-> IF e = TRACK_INFO THEN 1 ELSE 0]
    /\ seekingSeen' = FALSE
    /\ controls' = <<>>
    /\ progress' = 0
    /\ seeking' = FALSE
    /\ gestureValue' = NoPosition
    /\ emitted' = <<>>
    /\ requests' = 0
    /\ pushedInfo' = <<>>
    /\ pushedControls' = <<>>
    /\ pushedProgress' = NoPosition
    /\ dragging' = FALSE
    /\ lastOp' = "mount"
    /\ UNCHANGED primaryHue

(* Unmount whose tracker cleanup lacks clearTimeout(inactivityTimer) *)
Unmount_LeavesTimer ==
    /\ mounted
    /\ session' = "closed"
    /\ listening' = FALSE
    /\ handlers' = [e \in InboundEvents |-> 0]
    /\ connection' = "closed"
    /\ channels' = channels - 1
    /\ lastOp' = "unmount"
    /\ emitted' = <<>>
    /\ UNCHANGED <<everConnected, seekingSeen, track, primaryHue, controls,
                   progress, seeking, gestureValue, active, inactivityTimer,
                   idle, requests, pushedInfo, pushedControls, pushedProgress,
                   dragging>>

(* Unmount whose socket cleanup lacks socket.disconnect() *)
Unmount_KeepsChannel ==
    /\ mounted
    /\ session' = "closed"
    /\ inactivityTimer' = NoTimer
    /\ listening' = FALSE
    /\ handlers' = [e \in InboundEvents |-> 0]
    /\ connection' = "closed"
    /\ lastOp' = "unmount"
    /\ emitted' = <<>>
    /\ UNCHANGED <<everConnected, seekingSeen, track, primaryHue, controls,
                   progress, seeking, gestureValue, active, idle, requests,
                   pushedInfo, pushedControls, pushedProgress, dragging,
                   channels>>

(* Unmount of App and its children: every effect's cleanup runs.             *)
(* clearTimeout, controller.abort(); socket.off(TRACK_INFO),                 *)
(* socket.disconnect(); socket.off(TRACK_TIMELINE, onTrackTimeline);         *)
(* socket.off(TRACK_CONTROLS, setControls).                                  *)
Unmount ==
    /\ mounted
    /\ session' = "closed"
    /\ inactivityTimer' = NoTimer
    /\ listening' = FALSE
    /\ handlers' = [e \in InboundEvents |-> 0]
    /\ connection' = "closed"
    /\ channels' = channels - 1
    /\ lastOp' = "unmount"
    /\ emitted' = <<>>
    /\ UNCHANGED <<everConnected, seekingSeen, track, primaryHue, controls,
                   progress, seeking, gestureValue, active, idle, requests,
                   pushedInfo, pushedControls, pushedProgress, dragging>>

-----------------------------------------------------------------------------
(* The channel (socket.io-client): io(url) connects on its own and           *)
(* reconnects after a transport-level drop.                                  *)

(* What App does when the socket becomes connected: it registers no handler  *)
(* for "connect", so nothing is emitted.                                      *)
onConnect == emitted' = <<>>

Connect ==
    /\ connection = "connecting"
    /\ connection' = "connected"
    /\ everConnected' = TRUE
    /\ onConnect
    /\ Counted
    /\ lastOp' = "connect"
    /\ UNCHANGED <<session, handlers, seekingSeen, track, primaryHue, controls,
                   progress, seeking, gestureValue, active, inactivityTimer,
                   listening, idle, pushedInfo,
                   pushedControls, pushedProgress, dragging,
                   channels>>

(* Disconnect that also clears what the components hold *)
Disconnect_ClearsStores ==
    /\ connection = "connected"
    /\ connection' = "connecting"
    /\ track' = <<>>
    /\ controls' = <<>>
    /\ progress' = 0
    /\ lastOp' = "disconnect"
    /\ emitted' = <<>>
    /\ UNCHANGED <<session, everConnected, handlers, seekingSeen, primaryHue,
                   seeking, gestureValue, active, inactivityTimer, listening,
                   idle, requests, pushedInfo, pushedControls, pushedProgress,
                   dragging,
                   channels>>

(* The transport drops; socket.io starts to reconnect.  No component        *)
(* listens for it.                                                           *)
Disconnect ==
    /\ connection = "connected"
    /\ connection' = "connecting"
    /\ lastOp' = "disconnect"
    /\ emitted' = <<>>
    /\ UNCHANGED <<session, everConnected, handlers, seekingSeen, track, primaryHue,
                   controls, progress, seeking, gestureValue, active,
                   inactivityTimer, listening, idle, requests, pushedInfo,
                   pushedControls, pushedProgress, dragging,
                   channels>>

-----------------------------------------------------------------------------
(* IO: one method per outbound event, each a single socket.emit *)

togglePlayPause == emitted' = <<Emit(events.TOGGLE_PLAY_PAUSE, NoMode, NoPosition)>>
nextTrack == emitted' = <<Emit(events.NEXT_TRACK, NoMode, NoPosition)>>
previousTrack == emitted' = <<Emit(events.PREVIOUS_TRACK, NoMode, NoPosition)>>
toggleShuffle == emitted' = <<Emit(events.TOGGLE_SHUFFLE, NoMode, NoPosition)>>
setRepeatMode(mode) == emitted' = <<Emit(events.SET_REPEAT_MODE, mode, NoPosition)>>
seek(position) == emitted' = <<Emit(events.SEEK, NoMode, position)>>
getMediaDetails == emitted' = <<Emit(events.GET_MEDIA_DETAILS, NoMode, NoPosition)>>

-----------------------------------------------------------------------------
(* Inbound events.  socket.io calls the listeners registered for the name;   *)
(* with none registered the event is dropped.                                *)

(* A TRACK_INFO listener that patches the stored track, keeping the old     *)
(* album when the new one is null                                           *)
onTrackInfo_Merges(t) ==
    /\ primaryHue' = <<HueToString(t.accent_color)>>
    /\ track' = IF track # <<>> /\ t.album = null
                THEN <<[t EXCEPT !.album = track[1].album]>>
                ELSE <<t>>

(* App's TRACK_INFO listener: updatePrimaryColorHue(track.accent_color); setTrack(track) *)
onTrackInfo(t) ==
    /\ primaryHue' = <<HueToString(t.accent_color)>>
    /\ track' = <<t>>

(* TrackInfoPush that also puts ProgressBar back to its initial state *)
TrackInfoPush_ResetsTimeline ==
    /\ connection = "connected"
    /\ \E t \in TrackInfos :
          /\ IF handlers[TRACK_INFO] > 0
             THEN onTrackInfo(t)
             ELSE UNCHANGED <<primaryHue, track>>
          /\ pushedInfo' = <<t>>
    /\ progress' = 0
    /\ seeking' = FALSE
    /\ lastOp' = "track_info"
    /\ emitted' = <<>>
    /\ UNCHANGED <<session, channels, connection, everConnected, handlers,
                   seekingSeen, controls, gestureValue, active, inactivityTimer,
                   listening, idle, requests, pushedControls, pushedProgress,
                   dragging>>

(* A track_info push is delivered to App's listener *)
TrackInfoPush ==
    /\ connection = "connected"
    /\ \E t \in TrackInfos :
          /\ IF handlers[TRACK_INFO] > 0
             THEN onTrackInfo(t)
             ELSE UNCHANGED <<primaryHue, track>>
          /\ pushedInfo' = <<t>>
    /\ lastOp' = "track_info"
    /\ emitted' = <<>>
    /\ UNCHANGED <<session, connection, everConnected, handlers, seekingSeen, controls,
                   progress, seeking, gestureValue, active, inactivityTimer,
                   listening, idle, requests, pushedControls, pushedProgress, dragging,
                   channels>>

(* PlayerControls' TRACK_CONTROLS listener is setControls itself *)
setControls(c) == controls' = <<c>>

TrackControlsPush ==
    /\ connection = "connected"
    /\ \E c \in TrackControlsSet :
          /\ IF handlers[TRACK_CONTROLS] > 0
             THEN setControls(c)
             ELSE UNCHANGED controls
          /\ pushedControls' = <<c>>
    /\ lastOp' = "track_controls"
    /\ emitted' = <<>>
    /\ UNCHANGED <<session, connection, everConnected, handlers, seekingSeen, track,
                   primaryHue, progress, seeking, gestureValue, active,
                   inactivityTimer, listening, idle, requests, pushedInfo, pushedProgress, dragging,
                   channels>>

(* ProgressBar's onTrackTimeline, a closure over the `seeking` of the render *)
(* whose effect registered it: if (seeking) return false; setProgress(...)   *)
onTrackTimeline(timeline) ==
    IF seekingSeen
    THEN UNCHANGED progress
    ELSE progress' = timeline.progress

(* TrackTimelinePush whose listener also takes the duration from the push *)
TrackTimelinePush_SetsDuration ==
    /\ connection = "connected"
    /\ \E p \in 0..MaxProgress :
          /\ IF handlers[TRACK_TIMELINE] > 0
             THEN /\ onTrackTimeline([progress |-> p])
                  /\ track' = <<[track[1] EXCEPT !.duration = p]>>
             ELSE UNCHANGED <<progress, track>>
          /\ pushedProgress' = p
    /\ lastOp' = "track_timeline"
    /\ emitted' = <<>>
    /\ UNCHANGED <<session, connection, everConnected, handlers, seekingSeen,
                   primaryHue, controls, seeking, gestureValue, active,
                   inactivityTimer, listening, idle, requests, pushedInfo,
                   pushedControls, dragging,
                   channels>>

TrackTimelinePush ==
    /\ connection = "connected"
    /\ \E p \in 0..MaxProgress :
          /\ IF handlers[TRACK_TIMELINE] > 0
             THEN onTrackTimeline([progress |-> p])
             ELSE UNCHANGED progress
          /\ pushedProgress' = p
    /\ lastOp' = "track_timeline"
    /\ emitted' = <<>>
    /\ UNCHANGED <<session, connection, everConnected, handlers, seekingSeen, track,
                   primaryHue, controls, seeking, gestureValue, active,
                   inactivityTimer, listening, idle, requests, pushedInfo, pushedControls, dragging,
                   channels>>

(* The listeners called with a payload of null.  App's listener reads        *)
(* track.accent_color before anything else and throws; setControls stores    *)
(* the null; onTrackTimeline returns false while its closure holds seeking   *)
(* and otherwise throws on timeline.progress.                                *)
onTrackInfo_null ==
    /\ UNCHANGED <<primaryHue, track>>
    /\ lastOp' = "TypeError"

setControls_null ==
    /\ controls' = <<>>
    /\ lastOp' = "null_push"

onTrackTimeline_null ==
    /\ UNCHANGED progress
    /\ lastOp' = IF seekingSeen THEN "null_push" ELSE "TypeError"

(* A push whose payload is null, on any of the three inbound events *)
NullPush ==
    /\ connection = "connected"
    /\ \E name \in InboundEvents :
          /\ handlers[name] > 0
          /\ CASE name = TRACK_INFO ->
                     onTrackInfo_null /\ UNCHANGED <<controls, progress>>
               [] name = TRACK_CONTROLS ->
                     setControls_null /\ UNCHANGED <<primaryHue, track, progress>>
               [] name = TRACK_TIMELINE ->
                     onTrackTimeline_null /\ UNCHANGED <<primaryHue, track, controls>>
    /\ emitted' = <<>>
    /\ UNCHANGED <<session, connection, everConnected, handlers, seekingSeen,
                   seeking, gestureValue, active, inactivityTimer, listening,
                   idle, requests, pushedInfo, pushedControls,
                   pushedProgress, dragging,
                   channels>>

-----------------------------------------------------------------------------
(* Passive effects of the children *)

(* ProgressBar's effect has deps [io, seeking]; PlayerControls' has [io] *)
EffectsPending ==
    /\ ChildrenMounted
    /\ \/ handlers[TRACK_TIMELINE] = 0
       \/ seekingSeen # seeking
       \/ handlers[TRACK_CONTROLS] = 0

(* Cleanup of the previous effect (socket.off) and the new effect (socket.on) *)
FlushEffects ==
    /\ EffectsPending
    /\ handlers' = [handlers EXCEPT ![TRACK_TIMELINE] = 1,
                                    ![TRACK_CONTROLS] = 1]
    /\ seekingSeen' = seeking
    /\ lastOp' = "effects"
    /\ emitted' = <<>>
    /\ UNCHANGED <<session, connection, everConnected, track, primaryHue, controls,
                   progress, seeking, gestureValue, active, inactivityTimer,
                   listening, idle, requests, pushedInfo,
                   pushedControls, pushedProgress, dragging,
                   channels>>

-----------------------------------------------------------------------------
(* ProgressBar: the seek gesture on the Slider (min 0, max duration) *)

(* onValueChange: setSeeking(true); setProgress(newVal) *)
onValueChange(newVal) ==
    /\ seeking' = TRUE
    /\ progress' = newVal

(* SliderChange that seeks on every move of the gesture *)
SliderChange_SeeksLive ==
    /\ ChildrenMounted
    /\ \E newVal \in 0..track[1].duration :
          /\ onValueChange(newVal)
          /\ gestureValue' = newVal
          /\ seek(newVal)
    /\ dragging' = TRUE
    /\ lastOp' = "change"
    /\ UNCHANGED <<session, connection, everConnected, handlers, seekingSeen,
                   track, primaryHue, controls, active, inactivityTimer,
                   listening, idle, requests, pushedInfo, pushedControls,
                   pushedProgress,
                   channels>>

(* A move of the Slider's thumb: the Slider calls onValueChange *)
SliderChange ==
    /\ ChildrenMounted
    /\ \E newVal \in 0..track[1].duration :
          /\ onValueChange(newVal)
          /\ gestureValue' = newVal
    /\ dragging' = TRUE
    /\ lastOp' = "change"
    /\ emitted' = <<>>
    /\ UNCHANGED <<session, connection, everConnected, handlers, seekingSeen, track,
                   primaryHue, controls, active, inactivityTimer, listening,
                   idle, requests, pushedInfo,
                   pushedControls, pushedProgress,
                   channels>>

(* The gesture ends without the Slider calling onValueCommit.  ProgressBar   *)
(* passes the Slider no other callback, so no code of it runs.               *)
SliderAbandon ==
    /\ ChildrenMounted
    /\ dragging
    /\ dragging' = FALSE
    /\ lastOp' = "abandon"
    /\ emitted' = <<>>
    /\ UNCHANGED <<session, connection, everConnected, handlers, seekingSeen, track,
                   primaryHue, controls, progress, seeking, gestureValue, active,
                   inactivityTimer, listening, idle, requests, pushedInfo, pushedControls, pushedProgress,
                   channels>>

(* The value the Slider hands to onValueCommit: the gesture's last value *)
CommittedValue == gestureValue

(* handleSeek without its setSeeking(false) *)
handleSeek_KeepsLatch(newVal) ==
    /\ seeking' = seeking
    /\ seek(newVal)

(* handleSeek: setSeeking(false); io.seek(newVal) *)
handleSeek(newVal) ==
    /\ seeking' = FALSE
    /\ seek(newVal)

SliderCommit ==
    /\ ChildrenMounted
    /\ dragging
    /\ handleSeek(CommittedValue)
    /\ Counted
    /\ gestureValue' = NoPosition
    /\ dragging' = FALSE
    /\ lastOp' = "commit"
    /\ UNCHANGED <<session, connection, everConnected, handlers, seekingSeen, track,
                   primaryHue, controls, progress, active, inactivityTimer,
                   listening, idle, pushedInfo, pushedControls, pushedProgress,
                   channels>>

-----------------------------------------------------------------------------
(* PlayerControls: the five controls *)

(* REPEAT_MODE_CYCLE with List and Track exchanged *)
REPEAT_MODE_CYCLE_Swapped ==
    <<AutoRepeatMode.None, AutoRepeatMode.Track, AutoRepeatMode.List>>

(* Order of repeat modes when cycling *)
REPEAT_MODE_CYCLE == <<AutoRepeatMode.None, AutoRepeatMode.List, AutoRepeatMode.Track>>

(* Array.prototype.indexOf, 0-based, -1 when absent *)
IndexOf(array, x) ==
    IF \E i \in 1..Len(array) : array[i] = x
    THEN (CHOOSE i \in 1..Len(array) :
              /\ array[i] = x
              /\ \A j \in 1..(i - 1) : array[j] # x) - 1
    ELSE -1

(* cycleRepeatMode with nextIdx clamped to the last index instead of wrapped *)
NextRepeatMode_NoWrap(mode) ==
    LET idx == IndexOf(REPEAT_MODE_CYCLE, mode)
        nextIdx == IF idx + 1 < Len(REPEAT_MODE_CYCLE) THEN idx + 1 ELSE idx
    IN  REPEAT_MODE_CYCLE[nextIdx + 1]

(* idx, nextIdx and nextMode of cycleRepeatMode *)
NextRepeatMode(mode) ==
    LET idx == IndexOf(REPEAT_MODE_CYCLE, mode)
        nextIdx == (idx + 1) % Len(REPEAT_MODE_CYCLE)
    IN  REPEAT_MODE_CYCLE[nextIdx + 1]

(* cycleRepeatMode: if (!controls) return; ...; io.setRepeatMode(nextMode) *)
cycleRepeatMode ==
    IF controls = <<>>
    THEN emitted' = <<>>
    ELSE setRepeatMode(NextRepeatMode(controls[1].auto_repeat_mode))

Intents == {"play_pause", "next", "previous", "toggle_shuffle", "cycle_repeat"}

(* The availability flag that guards the button of an intent *)
EnabledFlag(intent, c) ==
    CASE intent = "play_pause" -> c.play_pause_enabled
      [] intent = "next" -> c.next_enabled
      [] intent = "previous" -> c.prev_enabled
      [] intent = "toggle_shuffle" -> c.shuffle_enabled
      [] intent = "cycle_repeat" -> c.auto_repeat_mode_enabled

(* The buttons rendered without regard to their availability flags *)
Rendered_IgnoresFlag(intent) ==
    /\ ChildrenMounted
    /\ controls # <<>>
    /\ active

(* The buttons rendered without regard to the tracker's active flag *)
Rendered_IgnoresActive(intent) ==
    /\ ChildrenMounted
    /\ controls # <<>>
    /\ EnabledFlag(intent, controls[1])

(* The buttons rendered also while controls is null *)
Rendered_IgnoresNull(intent) ==
    /\ ChildrenMounted
    /\ active
    /\ controls # <<>> => EnabledFlag(intent, controls[1])

(* The button of an intent is in the rendered output: PlayerControls is      *)
(* mounted, controls is not null, active is true, and the flag is set.       *)
Rendered(intent) ==
    /\ ChildrenMounted
    /\ controls # <<>>
    /\ active
    /\ EnabledFlag(intent, controls[1])

(* The onClick of each button *)
onClick(intent) ==
    CASE intent = "play_pause" -> togglePlayPause
      [] intent = "next" -> nextTrack
      [] intent = "previous" -> previousTrack
      [] intent = "toggle_shuffle" -> toggleShuffle
      [] intent = "cycle_repeat" -> cycleRepeatMode

(* Dispatch whose cycle_repeat also writes the next mode into controls *)
Dispatch_Optimistic ==
    /\ mounted
    /\ \E intent \in Intents :
          /\ IF Rendered(intent) THEN onClick(intent) ELSE emitted' = <<>>
          /\ IF Rendered(intent) /\ intent = "cycle_repeat"
             THEN controls' = <<[controls[1] EXCEPT !.auto_repeat_mode =
                                     NextRepeatMode(@)]>>
             ELSE UNCHANGED controls
          /\ lastOp' = intent
    /\ Counted
    /\ UNCHANGED <<session, connection, everConnected, handlers, seekingSeen,
                   track, primaryHue, progress, seeking, gestureValue, active,
                   inactivityTimer, listening, idle, pushedInfo, pushedControls,
                   pushedProgress, dragging,
                   channels>>

(* Dispatch whose toggle_shuffle also flips the stored shuffle value *)
Dispatch_OptimisticShuffle ==
    /\ mounted
    /\ \E intent \in Intents :
          /\ IF Rendered(intent) THEN onClick(intent) ELSE emitted' = <<>>
          /\ IF Rendered(intent) /\ intent = "toggle_shuffle"
             THEN controls' = <<[controls[1] EXCEPT !.shuffle = ~@]>>
             ELSE UNCHANGED controls
          /\ lastOp' = intent
    /\ Counted
    /\ UNCHANGED <<session, channels, connection, everConnected, handlers,
                   seekingSeen, track, primaryHue, progress, seeking,
                   gestureValue, active, inactivityTimer, listening, idle,
                   pushedInfo, pushedControls, pushedProgress, dragging>>

(* The user dispatches an intent: a click that finds no button does nothing *)
Dispatch ==
    /\ mounted
    /\ \E intent \in Intents :
          /\ IF Rendered(intent) THEN onClick(intent) ELSE emitted' = <<>>
          /\ lastOp' = intent
    /\ Counted
    /\ UNCHANGED <<session, connection, everConnected, handlers, seekingSeen, track,
                   primaryHue, controls, progress, seeking, gestureValue, active,
                   inactivityTimer, listening, idle, pushedInfo,
                   pushedControls, pushedProgress, dragging,
                   channels>>

-----------------------------------------------------------------------------

Next ==
    \/ Mount
    \/ Unmount
    \/ Connect
    \/ Disconnect
    \/ TrackInfoPush
    \/ TrackControlsPush
    \/ TrackTimelinePush
    \/ NullPush
    \/ FlushEffects
    \/ SliderChange
    \/ SliderCommit
    \/ SliderAbandon
    \/ Dispatch
    \/ Input
    \/ Tick
    \/ Timeout

Spec == Init /\ [][Next]_vars

-----------------------------------------------------------------------------
(* What the components render *)

(* The Slider's value: value={[progress]} *)
DisplayedPosition == progress

(* The Slider's max: max={duration}, with duration={track.duration} *)
DisplayedDuration == track[1].duration

(* TrackMetaData shows the album only when it is truthy *)
ShownAlbum(album) == IF album # null /\ album # "" THEN album ELSE "hidden"

(* The fields of a track as rendered: title, artist and album by           *)
(* TrackMetaData, duration by ProgressBar, thumbnail by TrackThumbnail, and *)
(* the hue as the --primary-hue property set by updatePrimaryColorHue       *)
Visible(t, hue) ==
    [title |-> t.title, artist |-> t.artist, album |-> ShownAlbum(t.album),
     duration |-> t.duration, thumbnail |-> t.thumbnail, hue |-> hue]

-----------------------------------------------------------------------------
(* Claims *)

(* C1: while a seek gesture is in progress the displayed position equals    *)
(* the last value the gesture supplied, whenever a track_timeline push      *)
(* arrives.                                                                  *)
C1_GestureOwnsDisplay ==
    (ChildrenMounted /\ seeking) => DisplayedPosition = gestureValue

(* C2: a commit emits exactly one seek event carrying the gesture's last    *)
(* value and clears the seeking latch in the same step; no other step       *)
(* emits a seek, so there are as many seek events as commits.               *)
C2_CommitEmitsOneSeek ==
    /\ [][lastOp' = "commit" =>
            /\ seeking
            /\ ~seeking'
            /\ emitted' = <<Emit(events.SEEK, NoMode, gestureValue)>>]_vars
    /\ [][NumOf(emitted', events.SEEK) = IF lastOp' = "commit" THEN 1 ELSE 0]_vars

C2_Witness ==
    /\ lastOp = "commit"
    /\ ~seeking
    /\ ~dragging
    /\ emitted = <<Emit(events.SEEK, NoMode, 1)>>
    /\ progress = 1

(* C3: an intent dispatched while its availability flag in the stored       *)
(* controls is false emits no event.                                         *)
C3_DisabledIntentEmitsNothing ==
    [][\A intent \in Intents :
          (lastOp' = intent /\ controls # <<>> /\ ~EnabledFlag(intent, controls[1]))
             => emitted' = <<>>]_vars

C3_Witness ==
    /\ lastOp = "play_pause"
    /\ ChildrenMounted
    /\ active
    /\ controls # <<>>
    /\ ~controls[1].play_pause_enabled
    /\ controls[1].prev_enabled
    /\ emitted = <<>>

(* C4: once the channel has reached Connected for the first time, exactly   *)
(* one get_media_details has been emitted.                                   *)
C4_FirstConnectRequestsOnce ==
    [][(lastOp' = "connect" /\ ~everConnected) => requests' = 1]_vars

(* C5: every later transition into Connected emits get_media_details once   *)
(* more.                                                                     *)
C5_ReconnectRequestsAgain ==
    [][(lastOp' = "connect" /\ everConnected) => requests' = requests + 1]_vars

C7_TrackReplacedWhole ==
    (mounted /\ pushedInfo # <<>>) =>
        /\ track # <<>>
        /\ primaryHue # <<>>
        /\ Visible(track[1], primaryHue[1])
             = Visible(pushedInfo[1], HueToString(pushedInfo[1].accent_color))

C7_Witness ==
    /\ mounted
    /\ lastOp = "track_info"
    /\ track # <<>>
    /\ track[1].album = null
    /\ track[1].title = "b"
    /\ progress = 2

(* C8: three applications of the repeat-mode successor return the stored    *)
(* repeat mode to itself, for each mode None, List and Track the store can  *)
(* hold; the mode cycle_repeat emits is the first of the three.             *)
C8_CycleClosure ==
    controls # <<>> =>
        LET mode == controls[1].auto_repeat_mode
        IN  /\ mode \in {AutoRepeatMode.None, AutoRepeatMode.List, AutoRepeatMode.Track}
            /\ NextRepeatMode(NextRepeatMode(NextRepeatMode(mode))) = mode
            /\ (lastOp = "cycle_repeat" /\ emitted # <<>>) =>
                   NextRepeatMode(NextRepeatMode(emitted[1].mode)) = mode

C8_Witness ==
    /\ lastOp = "cycle_repeat"
    /\ controls # <<>>
    /\ controls[1].auto_repeat_mode = AutoRepeatMode.Track
    /\ emitted = <<Emit(events.SET_REPEAT_MODE, AutoRepeatMode.None, NoPosition)>>

(* C9: when INACTIVITY_TIMEOUT has passed since the timer was armed the     *)
(* tracker is inactive; an input that finds it inactive makes it active in  *)
(* that step and arms a timer of the full duration.                         *)
C9_TimeoutThenWake ==
    /\ []((mounted /\ idle > INACTIVITY_TIMEOUT) => ~active)
    /\ [][lastOp' = "timeout" => (idle = INACTIVITY_TIMEOUT /\ ~active')]_vars
    /\ [][lastOp' = "wake" =>
            /\ ~active
            /\ active'
            /\ inactivityTimer' = INACTIVITY_TIMEOUT
            /\ idle' = 0]_vars

C9_Witness ==
    /\ lastOp = "wake"
    /\ active
    /\ inactivityTimer = INACTIVITY_TIMEOUT
    /\ ChildrenMounted

(* C10: every event name the client emits is one the protocol documents,    *)
(* and a seek carries a position.                                            *)
ProtocolFunctions ==
    {"get_media_details", "toggle_play_pause", "next_track", "prev_track",
     "toggle_shuffle", "set_repeat_mode", "seek_track"}

C10_EmitsProtocolNames ==
    \A i \in 1..Len(emitted) :
        /\ emitted[i].name \in ProtocolFunctions
        /\ emitted[i].name = "seek_track" <=> emitted[i].position # NoPosition

(* C11: whenever no seek gesture is in progress, the displayed position is  *)
(* the progress of the most recent track_timeline push, also when that push *)
(* arrived during the gesture that has just committed.                      *)
C11_DisplayFollowsLastPush ==
    (ChildrenMounted /\ ~seeking /\ pushedProgress # NoPosition)
        => DisplayedPosition = pushedProgress

(* C12: in a connected session the controls store holds the payload of the  *)
(* most recent track_controls push, and null only when there was none,      *)
(* wherever the pushes fall relative to the first track_info.               *)
C12_ControlsFollowLastPush ==
    (mounted /\ connection = "connected") => controls = pushedControls

(* C13: a move of the seek gesture, its first included, emits no event; of  *)
(* the steps of a gesture only the commit emits.                            *)
C13_GestureMovesEmitNothing ==
    /\ [][lastOp' = "change" => (seeking' /\ emitted' = <<>>)]_vars
    /\ [][(lastOp' \in {"change", "commit", "abandon"} /\ emitted' # <<>>)
              => lastOp' = "commit"]_vars

C13_Witness ==
    /\ lastOp = "change"
    /\ dragging
    /\ seeking
    /\ seekingSeen
    /\ gestureValue = 2
    /\ progress = 2
    /\ emitted = <<>>

(* C14: every gesture that ends, with a commit or without one, leaves the   *)
(* seeking latch cleared.                                                    *)
C14_GestureEndClearsLatch ==
    [][(mounted' /\ dragging /\ ~dragging') => ~seeking']_vars

(* C15: cycle_repeat, clicked while the store holds repeat mode m, emits    *)
(* exactly one set_repeat_mode carrying the successor of m in the order     *)
(* None, List, Track, None.                                                  *)
C15_CycleEmitsSuccessor ==
    [][(lastOp' = "cycle_repeat" /\ Rendered("cycle_repeat")) =>
          LET m == controls[1].auto_repeat_mode
              successor == CASE m = AutoRepeatMode.None -> AutoRepeatMode.List
                             [] m = AutoRepeatMode.List -> AutoRepeatMode.Track
                             [] m = AutoRepeatMode.Track -> AutoRepeatMode.None
          IN  emitted' = <<Emit(events.SET_REPEAT_MODE, successor, NoPosition)>>]_vars

C15_Witness ==
    /\ lastOp = "cycle_repeat"
    /\ controls # <<>>
    /\ controls[1].auto_repeat_mode = AutoRepeatMode.List
    /\ emitted = <<Emit(events.SET_REPEAT_MODE, AutoRepeatMode.Track, NoPosition)>>

(* C16: dispatching an intent leaves the stored controls as they are; they  *)
(* change only when a track_controls push is handled (or a new session      *)
(* starts), so a second cycle_repeat right after the first emits the same   *)
(* set_repeat_mode value.                                                    *)
C16_NoOptimisticUpdate ==
    /\ [][lastOp' \in Intents => controls' = controls]_vars
    /\ [][controls' # controls =>
              lastOp' \in {"track_controls", "null_push", "mount"}]_vars
    /\ [][(lastOp = "cycle_repeat" /\ lastOp' = "cycle_repeat"
              /\ emitted # <<>> /\ emitted' # <<>>) => emitted' = emitted]_vars

C16_Witness ==
    /\ lastOp = "toggle_shuffle"
    /\ emitted = <<Emit(events.TOGGLE_SHUFFLE, NoMode, NoPosition)>>
    /\ controls # <<>>
    /\ controls[1].shuffle
    /\ controls[1].auto_repeat_mode = AutoRepeatMode.Track

(* C17: the displayed duration is the duration of the most recent           *)
(* track_info push, and no gesture step and no track_timeline push changes  *)
(* it.                                                                       *)
C17_DurationFromTrackInfo ==
    /\ []((ChildrenMounted /\ pushedInfo # <<>>)
              => DisplayedDuration = pushedInfo[1].duration)
    /\ [][(ChildrenMounted
              /\ lastOp' \in {"change", "commit", "abandon", "track_timeline"})
              => DisplayedDuration' = DisplayedDuration]_vars

C17_Witness ==
    /\ ChildrenMounted
    /\ lastOp = "track_timeline"
    /\ pushedProgress = 1
    /\ progress = 1
    /\ DisplayedDuration = 2
    /\ ~seeking

(* C18: a transport-level disconnection leaves track, controls and the      *)
(* displayed progress as they were; none of them becomes null.              *)
C18_DisconnectKeepsStores ==
    [][lastOp' = "disconnect" =>
          /\ session' = "open"
          /\ track' = track
          /\ controls' = controls
          /\ DisplayedPosition' = DisplayedPosition]_vars

C18_Witness ==
    /\ lastOp = "disconnect"
    /\ connection = "connecting"
    /\ track # <<>>
    /\ controls # <<>>
    /\ progress = 1

(* C19: a malformed payload on any inbound event is dropped: the listener   *)
(* does not throw and track, controls and progress keep their values.       *)
C19_MalformedPayloadDropped ==
    [][lastOp' \in {"null_push", "TypeError"} =>
          /\ lastOp' # "TypeError"
          /\ UNCHANGED <<track, controls, progress>>]_vars

C21_InactiveOnlyAfterTimeout ==
    /\ []((mounted /\ ~active) => idle >= INACTIVITY_TIMEOUT)
    /\ []((mounted /\ inactivityTimer # NoTimer)
              => inactivityTimer = INACTIVITY_TIMEOUT - idle)
    /\ [][lastOp' \in {"mount", "input", "wake"} =>
              /\ active'
              /\ inactivityTimer' = INACTIVITY_TIMEOUT]_vars

C21_Witness ==
    /\ mounted
    /\ lastOp = "input"
    /\ active
    /\ idle = 0
    /\ inactivityTimer = INACTIVITY_TIMEOUT
    /\ everConnected

(* C22: while the session is open exactly one handler is registered for     *)
(* each of track_info, track_controls and track_timeline.                   *)
C22_OneHandlerPerEvent ==
    mounted => \A e \in InboundEvents : handlers[e] = 1

(* C23: one channel is open while a session is mounted and none while no    *)
(* session is; a mount opens one and an unmount closes it.                  *)
C23_OneChannelPerSession ==
    /\ [](channels = IF mounted THEN 1 ELSE 0)
    /\ [](mounted <=> connection # "closed")
    /\ [][lastOp' = "mount" => channels' = channels + 1]_vars
    /\ [][lastOp' = "unmount" => channels' = channels - 1]_vars

C23_Witness ==
    /\ mounted
    /\ lastOp = "mount"
    /\ primaryHue # <<>>
    /\ channels = 1
    /\ connection = "connecting"

(* C24: no dispatched intent and no step of a seek gesture changes track or *)
(* controls; track changes only where a track_info push is handled and      *)
(* controls only where a track_controls push is handled (a new session      *)
(* starts with both null).                                                   *)
C24_StoresOwnedByPushes ==
    /\ [][lastOp' \in Intents \cup {"change", "commit", "abandon"} =>
              UNCHANGED <<track, controls>>]_vars
    /\ [][track' # track => lastOp' \in {"track_info", "mount"}]_vars
    /\ [][controls' # controls =>
              /\ lastOp' \in {"track_controls", "null_push", "mount"}
              /\ handlers[TRACK_CONTROLS] > 0 \/ lastOp' = "mount"]_vars

C24_Witness ==
    /\ lastOp = "commit"
    /\ emitted # <<>>
    /\ track = pushedInfo
    /\ track # <<>>
    /\ controls = pushedControls
    /\ controls # <<>>

(* C25: the position handed to the Slider lies between 0 and the duration   *)
(* of the current track.                                                     *)
C25_PositionWithinDuration ==
    ChildrenMounted =>
        (0 <= DisplayedPosition /\ DisplayedPosition <= DisplayedDuration)

(* C26: handling a track_info push leaves the displayed position and the    *)
(* seeking latch as they were.                                               *)
C26_TrackInfoKeepsTimeline ==
    [][lastOp' = "track_info" =>
          /\ DisplayedPosition' = DisplayedPosition
          /\ seeking' = seeking
          /\ seekingSeen' = seekingSeen]_vars

C26_Witness ==
    /\ lastOp = "track_info"
    /\ ChildrenMounted
    /\ seeking
    /\ dragging
    /\ progress = 1
    /\ track[1].title = "a"

(* C27: while controls is null no control is rendered and a dispatched      *)
(* intent, cycle_repeat included, emits nothing.                            *)
C27_NoControlBeforeSnapshot ==
    /\ [](controls = <<>> => \A intent \in Intents : ~Rendered(intent))
    /\ [][(lastOp' \in Intents /\ controls = <<>>) => emitted' = <<>>]_vars

C27_Witness ==
    /\ lastOp = "cycle_repeat"
    /\ ChildrenMounted
    /\ active
    /\ handlers[TRACK_CONTROLS] = 1
    /\ controls = <<>>
    /\ pushedControls = <<>>
    /\ emitted = <<>>

=============================================================================
